---- MODULE Spec2Model ----
(***************************************************************************)
(* SecureGuard AI: the URL safety checker of src/README.md (App.tsx) and   *)
(* src/src/HistoryPage.tsx.                                                *)
(*                                                                         *)
(* Text is modelled by TLA+ strings; a character is a string of length 1.  *)
(* An optional value (null / undefined / an absent localStorage key) is a  *)
(* sequence of length 0 or 1.                                              *)
(***************************************************************************)
EXTENDS Integers, Sequences, FiniteSets, TLC

VARIABLES
    url,             \* useState('')            the URL input field
    result,          \* useState(null)          the result shown (optional)
    isLoading,       \* useState(false)
    aiLoading,       \* useState(false)
    apiKeyInput,     \* useState('')
    geminiApiKey,    \* useState('')
    showApiKeyInput, \* useState(false)
    showApiKeyModal, \* useState(false)
    urlHistory,      \* useState([])            the history held in memory
    currentView,     \* useState('home')
    urlError,        \* useState(null)          (optional)
    storage,         \* localStorage: the keys geminiApiKey and urlHistory
    inflight,        \* handleCheck calls suspended at their await
    timers,          \* pending setTimeout callbacks that change the view
    now,             \* Date.now(), a logical clock
    fault,           \* the last localStorage.setItem of the history threw
    input,           \* the last call of the function under test (function specs)
    output,          \* its return value (optional)
    spent            \* how many steps off the default course were taken so far

vars == <<url, result, isLoading, aiLoading, apiKeyInput, geminiApiKey,
          showApiKeyInput, showApiKeyModal, urlHistory, currentView, urlError,
          storage, inflight, timers, now, fault, input, output, spent>>

appVars == <<url, result, isLoading, aiLoading, apiKeyInput, geminiApiKey,
             showApiKeyInput, showApiKeyModal, urlHistory, currentView,
             urlError, storage, inflight, timers, now, fault>>

None == <<>>
Some(v) == <<v>>

(***************************************************************************)
(* String primitives of JavaScript used by the program.                    *)
(***************************************************************************)
CharAt(s, i) == SubSeq(s, i, i)

UpperChars == "ABCDEFGHIJKLMNOPQRSTUVWXYZ"
LowerChars == "abcdefghijklmnopqrstuvwxyz"
DigitChars == "0123456789"

IsCharOf(c, chars) == \E i \in 1..Len(chars) : CharAt(chars, i) = c

IndexIn(c, chars) == CHOOSE i \in 1..Len(chars) : CharAt(chars, i) = c

LowerOf(c) ==
    IF IsCharOf(c, UpperChars) THEN CharAt(LowerChars, IndexIn(c, UpperChars))
    ELSE c

\* the recursions over the characters of a string halve it, so their depth
\* is the logarithm of its length
RECURSIVE toLowerCase(_)
toLowerCase(s) ==
    IF Len(s) = 0 THEN ""
    ELSE IF Len(s) = 1 THEN LowerOf(s)
    ELSE LET h == Len(s) \div 2
         IN  toLowerCase(SubSeq(s, 1, h)) \o toLowerCase(SubSeq(s, h + 1, Len(s)))

startsWith(s, p) == Len(p) <= Len(s) /\ SubSeq(s, 1, Len(p)) = p

endsWith(s, p) ==
    Len(p) <= Len(s) /\ SubSeq(s, Len(s) - Len(p) + 1, Len(s)) = p

includes(s, w) ==
    \E i \in 1..(Len(s) - Len(w) + 1) : SubSeq(s, i, i + Len(w) - 1) = w

\* String.prototype.indexOf: the first position (1-based) of w in s, 0 if none
indexOf(s, w) ==
    IF includes(s, w)
    THEN CHOOSE i \in 1..(Len(s) - Len(w) + 1) :
            /\ SubSeq(s, i, i + Len(w) - 1) = w
            /\ \A j \in 1..(i - 1) : SubSeq(s, j, j + Len(w) - 1) # w
    ELSE 0

\* String.prototype.split with a one-character separator
RECURSIVE split(_, _)
split(s, sep) ==
    LET k == indexOf(s, sep)
    IN  IF k = 0 THEN <<s>>
        ELSE <<SubSeq(s, 1, k - 1)>> \o split(SubSeq(s, k + 1, Len(s)), sep)

\* Array.prototype.join
RECURSIVE join(_, _)
join(parts, sep) ==
    IF Len(parts) = 0 THEN ""
    ELSE IF Len(parts) = 1 THEN parts[1]
    ELSE LET h == Len(parts) \div 2
         IN  join(SubSeq(parts, 1, h), sep) \o sep
             \o join(SubSeq(parts, h + 1, Len(parts)), sep)

IsSpace(c) == c \in {" ", "\n", "\t", "\r"}

\* String.prototype.trim
trimStart(s) ==
    LET k == Cardinality({i \in 1..Len(s) :
                            \A j \in 1..i : IsSpace(CharAt(s, j))})
    IN  SubSeq(s, k + 1, Len(s))

trimEnd(s) ==
    LET k == Cardinality({i \in 1..Len(s) :
                            \A j \in i..Len(s) : IsSpace(CharAt(s, j))})
    IN  SubSeq(s, 1, Len(s) - k)

trim(s) == trimEnd(trimStart(s))

IsDigits(s) == Len(s) > 0 /\ \A i \in 1..Len(s) : IsCharOf(CharAt(s, i), DigitChars)

\* the value of a string of digits in the given base
RECURSIVE DigitsValue(_, _)
DigitsValue(s, base) ==
    IF Len(s) = 0 THEN 0
    ELSE DigitsValue(SubSeq(s, 1, Len(s) - 1), base) * base
         + (IndexIn(CharAt(s, Len(s)), DigitChars) - 1)

Min(a, b) == IF a < b THEN a ELSE b
Max(a, b) == IF a > b THEN a ELSE b

(***************************************************************************)
(* new URL(s) for the http and https schemes (the WHATWG URL parser), for  *)
(* ASCII input without percent-escapes, IPv6 literals or hexadecimal IPv4  *)
(* parts.  Returns [ok, protocol, hostname].                               *)
(***************************************************************************)
ForbiddenHostChars == " #%<>?@[]^|\\/:"

SkipSlashes(s) ==
    LET k == Cardinality({i \in 1..Len(s) :
                            \A j \in 1..i : CharAt(s, j) \in {"/", "\\"}})
    IN  SubSeq(s, k + 1, Len(s))

\* the part of s before the first character that ends the authority
AuthorityOf(s) ==
    LET k == Cardinality({i \in 1..Len(s) :
                            \A j \in 1..i :
                               CharAt(s, j) \notin {"/", "\\", "?", "#"}})
    IN  SubSeq(s, 1, k)

RECURSIVE StripUserinfo(_)
StripUserinfo(a) ==
    IF includes(a, "@")
    THEN StripUserinfo(SubSeq(a, indexOf(a, "@") + 1, Len(a)))
    ELSE a

PortOk(p) == p = "" \/ (IsDigits(p) /\ Len(p) <= 5 /\ DigitsValue(p, 10) <= 65535)

\* a part of an IPv4 host: decimal, or octal with a leading 0; -1 if neither
Ipv4Part(p) ==
    IF ~IsDigits(p) \/ Len(p) > 9 THEN -1
    ELSE IF Len(p) > 1 /\ Head(p) = "0"
         THEN IF \A i \in 1..Len(p) : IsCharOf(CharAt(p, i), "01234567")
              THEN DigitsValue(p, 8) ELSE -1
         ELSE DigitsValue(p, 10)

\* v written as n bytes, most significant first, joined by dots
RECURSIVE BytesOf(_, _)
BytesOf(v, n) ==
    IF n = 1 THEN ToString(v)
    ELSE BytesOf(v \div 256, n - 1) \o "." \o ToString(v % 256)

\* 256^k for k in 1..3; any 9-digit number is below 256^4
Pow256(k) == IF k = 1 THEN 256 ELSE IF k = 2 THEN 65536 ELSE 16777216

\* the host parser: None on failure, else Some(hostname)
ParseHost(h) ==
    LET lower  == toLowerCase(h)
        raw    == split(lower, ".")
        parts  == IF Len(raw) > 1 /\ raw[Len(raw)] = ""
                  THEN SubSeq(raw, 1, Len(raw) - 1) ELSE raw
        n      == Len(parts)
        nums   == [i \in 1..n |-> Ipv4Part(parts[i])]
    IN  IF Len(h) = 0 THEN None
        ELSE IF \E i \in 1..Len(h) : IsCharOf(CharAt(h, i), ForbiddenHostChars)
        THEN None
        ELSE IF ~IsDigits(parts[n]) THEN Some(lower)
        ELSE IF n > 4 THEN None
        ELSE IF \E i \in 1..n : nums[i] < 0 THEN None
        ELSE IF \E i \in 1..(n - 1) : nums[i] > 255 THEN None
        ELSE IF n > 1 /\ nums[n] >= Pow256(5 - n) THEN None
        ELSE Some(join([i \in 1..(n - 1) |-> ToString(nums[i])]
                       \o <<BytesOf(nums[n], 5 - n)>>, "."))

ParseURL(s) ==
    LET t      == trim(s)
        proto  == IF startsWith(t, "https:") THEN "https:"
                  ELSE IF startsWith(t, "http:") THEN "http:" ELSE ""
        rest   == SkipSlashes(SubSeq(t, Len(proto) + 1, Len(t)))
        auth   == StripUserinfo(AuthorityOf(rest))
        k      == indexOf(auth, ":")
        h      == IF k = 0 THEN auth ELSE SubSeq(auth, 1, k - 1)
        port   == IF k = 0 THEN "" ELSE SubSeq(auth, k + 1, Len(auth))
        host   == ParseHost(h)
    IN  IF proto = "" \/ ~PortOk(port) \/ host = None
        THEN [ok |-> FALSE, protocol |-> "", hostname |-> ""]
        ELSE [ok |-> TRUE, protocol |-> proto, hostname |-> host[1]]

(***************************************************************************)
(* checkURL: the heuristic scorer.                                         *)
(***************************************************************************)
suspiciousTLDs ==
    <<".xyz", ".tk", ".ml", ".ga", ".cf", ".gq", ".top", ".work", ".date",
      ".racing">>

shortenerDomains ==
    <<"bit.ly", "tinyurl.com", "goo.gl", "t.co", "ow.ly", "is.gd", "buff.ly",
      "adf.ly", "tiny.cc">>

suspiciousWords ==
    <<"login", "signin", "verify", "secure", "account", "update", "confirm",
      "paypal", "banking", "password">>

commonDomains ==
    <<"google.com", "youtube.com", "facebook.com", "twitter.com",
      "instagram.com", "linkedin.com", "github.com", "apple.com",
      "microsoft.com", "amazon.com">>

HostChars == LowerChars \o UpperChars \o DigitChars \o ".-"

Elems(seq) == {seq[i] : i \in 1..Len(seq)}

\* url with the https scheme put in front unless it has an http(s) scheme
normalizeUrl(u) ==
    IF ~startsWith(u, "http://") /\ ~startsWith(u, "https://")
    THEN "https://" \o u ELSE u

\* domain.replace(/[a-zA-Z0-9.-]/g, '')
RECURSIVE specialCharsOf(_)
specialCharsOf(d) ==
    IF Len(d) = 0 THEN ""
    ELSE IF Len(d) = 1 THEN (IF IsCharOf(d, HostChars) THEN "" ELSE d)
    ELSE LET h == Len(d) \div 2
         IN  specialCharsOf(SubSeq(d, 1, h))
             \o specialCharsOf(SubSeq(d, h + 1, Len(d)))

\* mutant of ipRegexTest: no host is taken for an IP address
ipRegexTest_Never(d) == FALSE

\* /^(\d{1,3}\.){3}\d{1,3}$/.test(d)
ipRegexTest(d) ==
    LET parts == split(d, ".")
    IN  /\ Len(parts) = 4
        /\ \A i \in 1..4 : IsDigits(parts[i]) /\ Len(parts[i]) <= 3

WarnHttps == "Website does not use HTTPS (secure connection)"
WarnTld(tld) == "Domain uses potentially suspicious TLD (" \o tld \o ")"
WarnShortener ==
    "URL appears to be a shortened link, which can hide the actual destination"
WarnSubdomains == "URL contains an unusual number of subdomains"
WarnIp == "URL uses an IP address instead of a domain name"
WarnTerms(found) ==
    "URL contains potentially suspicious terms: " \o join(found, ", ")
WarnSpecial == "Domain contains unusual special characters"
PosHttps == "Uses secure HTTPS connection"
PosCommon == "Domain matches a common legitimate website"
PosDefault == "No major security issues detected"

\* the suspicious words found in the lower-cased normalized URL, in list order
foundSuspiciousWordsOf(normalizedUrl) ==
    LET urlLower == toLowerCase(normalizedUrl)
    IN  SelectSeq(suspiciousWords, LAMBDA word : includes(urlLower, word))

\* commonDomains.some(d => domain.endsWith(d))
IsCommonDomain(domain) == \E d \in Elems(commonDomains) : endsWith(domain, d)

\* mutant of RefundTerms: the warning is removed, the deduction is kept
RefundTerms_NoRestore(st, found) ==
    [st EXCEPT !.warnings =
        SelectSeq(st.warnings, LAMBDA w : ~includes(w, "suspicious terms"))]

\* warnings.splice(index, 1) at the first warning about suspicious terms,
\* with the score deduction restored; nothing changes if there is none
RefundTerms(st, found) ==
    LET hits == {i \in 1..Len(st.warnings) :
                    includes(st.warnings[i], "suspicious terms")}
    IN  IF Len(found) > 0 /\ hits # {}
        THEN LET index == CHOOSE i \in hits : \A j \in hits : i <= j
             IN  [st EXCEPT
                    !.warnings = SubSeq(st.warnings, 1, index - 1)
                                 \o SubSeq(st.warnings, index + 1,
                                           Len(st.warnings)),
                    !.score = st.score + 5 * Len(found)]
        ELSE st

\* mutant of Rule: the warning is pushed, the score is left as it was
Rule_WarnsOnly(st, cond, delta, warning) ==
    IF cond THEN [st EXCEPT !.warnings = Append(st.warnings, warning)] ELSE st

\* one rule: when cond holds, add delta and push the warning
Rule(st, cond, delta, warning) ==
    IF cond
    THEN [st EXCEPT !.score = st.score + delta,
                    !.warnings = Append(st.warnings, warning)]
    ELSE st

\* mutant of ClampAndDefault: the score is not brought into 0..100
ClampAndDefault_NoClamp(st) ==
    [score |-> st.score,
     warnings |-> st.warnings,
     positives |-> IF Len(st.positives) = 0 /\ st.score > 50
                   THEN Append(st.positives, PosDefault)
                   ELSE st.positives]

\* mutant of ClampAndDefault: the default positive is pushed from 50 on
ClampAndDefault_FromFifty(st) ==
    LET score == Max(0, Min(100, st.score))
    IN  [score |-> score,
         warnings |-> st.warnings,
         positives |-> IF Len(st.positives) = 0 /\ score >= 50
                       THEN Append(st.positives, PosDefault)
                       ELSE st.positives]

\* score = Math.max(0, Math.min(100, score)), then the default positive
ClampAndDefault(st) ==
    LET score == Max(0, Min(100, st.score))
    IN  [score |-> score,
         warnings |-> st.warnings,
         positives |-> IF Len(st.positives) = 0 /\ score > 50
                       THEN Append(st.positives, PosDefault)
                       ELSE st.positives]

\* the rules of checkURL applied, in the order of the code, to a parsed URL
ApplyRules(normalizedUrl, parsedUrl) ==
    LET domain == parsedUrl.hostname
        labels == split(domain, ".")
        tld    == "." \o labels[Len(labels)]
        found  == foundSuspiciousWordsOf(normalizedUrl)
        s0 == [score |-> 100, warnings |-> <<>>, positives |-> <<>>]
        s1 == IF parsedUrl.protocol # "https:"
              THEN Rule(s0, TRUE, -10, WarnHttps)
              ELSE [s0 EXCEPT !.positives = Append(s0.positives, PosHttps)]
        s2 == Rule(s1, tld \in Elems(suspiciousTLDs), -15, WarnTld(tld))
        s3 == Rule(s2, \E sh \in Elems(shortenerDomains) : includes(domain, sh),
                   -25, WarnShortener)
        s4 == Rule(s3, Len(labels) - 2 > 3, -10, WarnSubdomains)
        s5 == Rule(s4, ipRegexTest(domain), -30, WarnIp)
        s6 == Rule(s5, Len(found) > 0, -5 * Len(found), WarnTerms(found))
        s7 == Rule(s6, Len(specialCharsOf(domain)) > 0, -15, WarnSpecial)
        s8 == IF IsCommonDomain(domain)
              THEN RefundTerms(
                     [s7 EXCEPT !.score = s7.score + 30,
                                !.positives = Append(s7.positives, PosCommon)],
                     found)
              ELSE s7
    IN  ClampAndDefault(s8)

checkURL(u) ==
    LET normalizedUrl == normalizeUrl(u)
        parsedUrl == ParseURL(normalizedUrl)
    IN  IF u = ""
        THEN [score |-> 0, warnings |-> <<"Please enter a URL">>,
              positives |-> <<>>]
        ELSE IF ~parsedUrl.ok
        THEN [score |-> 10,
              warnings |-> <<"Invalid URL format. Please enter a valid domain name or complete URL">>,
              positives |-> <<>>]
        ELSE ApplyRules(normalizedUrl, parsedUrl)

isValidURL(in) ==
    IF in = "" THEN FALSE ELSE ParseURL(normalizeUrl(in)).ok

(***************************************************************************)
(* IEEE 754 double arithmetic on non-negative numbers, as JavaScript does  *)
(* it.  A number is [m, e]: the bits m of its mantissa, least significant  *)
(* first and with no high zero bits, and the exponent e of its lowest bit; *)
(* its value is the sum of m[i] * 2^(i - 1 + e).  Zero has no bits.        *)
(***************************************************************************)
MantissaBits == 53

RECURSIVE BitsOfInt(_)
BitsOfInt(n) == IF n = 0 THEN <<>> ELSE <<n % 2>> \o BitsOfInt(n \div 2)

RECURSIVE IntOfBits(_)
IntOfBits(b) == IF Len(b) = 0 THEN 0 ELSE b[1] + 2 * IntOfBits(Tail(b))

Zeros(n) == [i \in 1..n |-> 0]

Reverse(b) == [i \in 1..Len(b) |-> b[Len(b) + 1 - i]]

\* b with zero bits added above it up to length n
PadTo(b, n) == [i \in 1..n |-> IF i <= Len(b) THEN b[i] ELSE 0]

\* the recursions over bits halve the sequence and hand the carry from the
\* low half to the high half, so their depth is the logarithm of its length

\* a + b + carry for a and b of one length: [bits, carry]
RECURSIVE AddCarry(_, _, _)
AddCarry(a, b, carry) ==
    IF Len(a) = 0 THEN [bits |-> <<>>, carry |-> carry]
    ELSE IF Len(a) = 1
    THEN [bits |-> <<(a[1] + b[1] + carry) % 2>>,
          carry |-> (a[1] + b[1] + carry) \div 2]
    ELSE LET h  == Len(a) \div 2
             lo == AddCarry(SubSeq(a, 1, h), SubSeq(b, 1, h), carry)
             hi == AddCarry(SubSeq(a, h + 1, Len(a)), SubSeq(b, h + 1, Len(b)),
                            lo.carry)
         IN  [bits |-> lo.bits \o hi.bits, carry |-> hi.carry]

AddBits(a, b, carry) ==
    LET n == Max(Len(a), Len(b))
        r == AddCarry(PadTo(a, n), PadTo(b, n), carry)
    IN  r.bits \o (IF r.carry = 1 THEN <<1>> ELSE <<>>)

\* the bits a times the integer k, plus carry: [bits, carry]
RECURSIVE MulCarry(_, _, _)
MulCarry(a, k, carry) ==
    IF Len(a) = 0 THEN [bits |-> <<>>, carry |-> carry]
    ELSE IF Len(a) = 1
    THEN [bits |-> <<(a[1] * k + carry) % 2>>,
          carry |-> (a[1] * k + carry) \div 2]
    ELSE LET h  == Len(a) \div 2
             lo == MulCarry(SubSeq(a, 1, h), k, carry)
             hi == MulCarry(SubSeq(a, h + 1, Len(a)), k, lo.carry)
         IN  [bits |-> lo.bits \o hi.bits, carry |-> hi.carry]

\* the product of a and b, where b has at most 16 bits
MulBits(a, b) ==
    IF Len(a) = 0 \/ Len(b) = 0 THEN <<>>
    ELSE LET r == MulCarry(a, IntOfBits(b), 0)
         IN  r.bits \o BitsOfInt(r.carry)

\* round to nearest, ties to even, keeping MantissaBits bits
RoundToDouble(bits, e) ==
    LET n == Len(bits)
        d == n - MantissaBits
    IN  IF d <= 0 THEN [m |-> bits, e |-> e]
        ELSE LET kept   == SubSeq(bits, d + 1, n)
                 guard  == bits[d]
                 sticky == \E i \in 1..(d - 1) : bits[i] = 1
                 up     == guard = 1 /\ (sticky \/ kept[1] = 1)
             IN  [m |-> IF up THEN AddBits(kept, <<1>>, 0) ELSE kept,
                  e |-> e + d]

\* n binary digits of r/den after the point, first digit first, and the
\* remainder they leave: [bits, rem]
RECURSIVE FracDigits(_, _, _)
FracDigits(r, den, n) ==
    IF n = 0 THEN [bits |-> <<>>, rem |-> r]
    ELSE IF n = 1
    THEN [bits |-> <<IF 2 * r >= den THEN 1 ELSE 0>>,
          rem |-> IF 2 * r >= den THEN 2 * r - den ELSE 2 * r]
    ELSE LET h  == n \div 2
             lo == FracDigits(r, den, h)
             hi == FracDigits(lo.rem, den, n - h)
         IN  [bits |-> lo.bits \o hi.bits, rem |-> hi.rem]

\* the number of zero digits of r/den before its first one digit
RECURSIVE LeadingZeros(_, _)
LeadingZeros(r, den) ==
    IF 2 * r >= den THEN 0 ELSE 1 + LeadingZeros(2 * r, den)

\* the double a decimal literal num/den denotes, for 0 < num < den
DoubleOfFraction(num, den) ==
    LET z    == LeadingZeros(num, den)
        d    == FracDigits(FracDigits(num, den, z).rem, den, MantissaBits)
        bits == Reverse(d.bits)
        up   == 2 * d.rem > den \/ (2 * d.rem = den /\ bits[1] = 1)
    IN  [m |-> IF up THEN AddBits(bits, <<1>>, 0) ELSE bits,
         e |-> -(z + MantissaBits)]

DoubleOfInt(n) == [m |-> BitsOfInt(n), e |-> 0]

\* x * y
FMul(x, y) ==
    RoundToDouble(IF Len(x.m) <= Len(y.m) THEN MulBits(y.m, x.m)
                  ELSE MulBits(x.m, y.m),
                  x.e + y.e)

\* x + y
FAdd(x, y) ==
    LET e == Min(x.e, y.e)
    IN  IF Len(x.m) = 0 THEN y
        ELSE IF Len(y.m) = 0 THEN x
        ELSE RoundToDouble(AddBits(Zeros(x.e - e) \o x.m,
                                   Zeros(y.e - e) \o y.m, 0), e)

\* Math.round(x): the nearest integer, a fraction of exactly .5 going up
MathRound(x) ==
    LET n == Len(x.m)
    IN  IF x.e >= 0 THEN IntOfBits(Zeros(x.e) \o x.m)
        ELSE LET whole == IF -x.e >= n THEN <<>> ELSE SubSeq(x.m, 1 - x.e, n)
                 half  == IF -x.e > n THEN 0 ELSE x.m[-x.e]
             IN  IntOfBits(whole) + half

Double03 == DoubleOfFraction(3, 10)
Double07 == DoubleOfFraction(7, 10)
Double05 == DoubleOfFraction(5, 10)

(***************************************************************************)
(* getAIAnalysis: what it makes of the text the model answers with.        *)
(***************************************************************************)
\* the number of consecutive characters of s from position i on that Is holds of
SpanOf(s, i, Is(_)) ==
    Cardinality({k \in i..Len(s) : \A j \in i..k : Is(CharAt(s, j))})

IsDigit(c) == IsCharOf(c, DigitChars)

ScoreToken == "safety_score:"

\* /SAFETY_SCORE:\s*(\d+)/i matches at position i of text
MatchesAt(text, i) ==
    LET ws == SpanOf(text, i + Len(ScoreToken), IsSpace)
    IN  /\ i + Len(ScoreToken) - 1 <= Len(text)
        /\ toLowerCase(SubSeq(text, i, i + Len(ScoreToken) - 1)) = ScoreToken
        /\ SpanOf(text, i + Len(ScoreToken) + ws, IsDigit) > 0

\* text.match(/SAFETY_SCORE:\s*(\d+)/i): None, or the first match with its
\* position, its length and its group 1
scoreMatchOf(text) ==
    LET at == {i \in 1..Len(text) : MatchesAt(text, i)}
    IN  IF at = {} THEN None
        ELSE LET i  == CHOOSE k \in at : \A j \in at : k <= j
                 ws == SpanOf(text, i + Len(ScoreToken), IsSpace)
                 ds == SpanOf(text, i + Len(ScoreToken) + ws, IsDigit)
             IN  Some([index |-> i,
                       length |-> Len(ScoreToken) + ws + ds,
                       group1 |-> SubSeq(text, i + Len(ScoreToken) + ws,
                                         i + Len(ScoreToken) + ws + ds - 1)])

\* parseInt(digits, 10) for a string of at most nine digits
parseInt(digits) == DigitsValue(digits, 10)

\* the score inferred from the content when the answer carries no token
inferredScore(text) ==
    LET lower == toLowerCase(text)
    IN  IF /\ includes(lower, "legitimate")
           /\ ~includes(lower, "malicious")
           /\ ~includes(lower, "suspicious")
        THEN 85
        ELSE IF \/ includes(lower, "malicious")
                \/ includes(lower, "phishing")
                \/ includes(lower, "scam")
        THEN 20
        ELSE IF includes(lower, "caution") \/ includes(lower, "suspicious")
        THEN 50
        ELSE 65

\* aiSafetyScore
aiSafetyScoreOf(text) ==
    LET scoreMatch == scoreMatchOf(text)
    IN  IF scoreMatch # None THEN parseInt(scoreMatch[1].group1)
        ELSE inferredScore(text)

\* aiText: the answer with the first token removed, trimmed
aiTextOf(text) ==
    LET scoreMatch == scoreMatchOf(text)
    IN  IF scoreMatch # None
        THEN trim(SubSeq(text, 1, scoreMatch[1].index - 1)
                  \o SubSeq(text, scoreMatch[1].index + scoreMatch[1].length,
                            Len(text)))
        ELSE text

assessmentOf(aiSafetyScore) ==
    IF aiSafetyScore >= 80 THEN "Safe"
    ELSE IF aiSafetyScore >= 50 THEN "Exercise Caution"
    ELSE "Potentially Unsafe"

\* the value getAIAnalysis returns when the model answered with text
analysisOf(text) ==
    [text |-> aiTextOf(text),
     safety |-> Some([score |-> aiSafetyScoreOf(text),
                      assessment |-> assessmentOf(aiSafetyScoreOf(text))])]

UnableText == "Unable to get AI analysis. Please check your API key and try again."

\* the value getAIAnalysis returns when the call threw
analysisFailed == [text |-> UnableText, safety |-> None]

(***************************************************************************)
(* handleCheck: the heuristic score blended with the AI score.             *)
(***************************************************************************)
isKnownDomainOf(checkResult) ==
    \E p \in Elems(checkResult.positives) :
        includes(p, "common legitimate website")

\* Math.round(wBase * base + wAi * ai)
Weighted(wBase, base, wAi, ai) ==
    MathRound(FAdd(FMul(wBase, DoubleOfInt(base)), FMul(wAi, DoubleOfInt(ai))))

\* checkResult.score after the blend with the AI score aiScore
blendedScore(checkResult, aiScore) ==
    LET mixed == IF isKnownDomainOf(checkResult)
                 THEN Weighted(Double03, checkResult.score, Double07, aiScore)
                 ELSE Weighted(Double05, checkResult.score, Double05, aiScore)
    IN  Max(0, Min(100, mixed))

(***************************************************************************)
(* The history: addToHistory, clearHistory and the copy in localStorage.   *)
(***************************************************************************)
KeptItems == 19

\* the k-th smallest element of a set of integers
KthOf(S, k) == CHOOSE p \in S : Cardinality({q \in S : q < p}) = k - 1

\* the first position at or after i where w occurs in s (it does occur)
NextIndexOf(s, w, i) ==
    KthOf({k \in i..(Len(s) - Len(w) + 1) : SubSeq(s, k, k + Len(w) - 1) = w}, 1)

UrlKey == "{\"url\":\""
ScoreKey == "\",\"score\":"
TimestampKey == ",\"timestamp\":"

\* JSON.stringify of one history item; no character of a URL needs an escape
stringifyItem(item) ==
    UrlKey \o item.url \o ScoreKey \o ToString(item.score)
    \o TimestampKey \o ToString(item.timestamp) \o "}"

\* JSON.stringify(newHistory)
stringify(history) ==
    "[" \o join([i \in 1..Len(history) |-> stringifyItem(history[i])], ",")
    \o "]"

\* the history item whose text starts at position p of json
parseItemAt(json, p) ==
    LET u0 == p + Len(UrlKey)
        u1 == NextIndexOf(json, ScoreKey, u0)
        s0 == u1 + Len(ScoreKey)
        s1 == NextIndexOf(json, TimestampKey, s0)
        t0 == s1 + Len(TimestampKey)
        t1 == NextIndexOf(json, "}", t0)
    IN  [url |-> SubSeq(json, u0, u1 - 1),
         score |-> parseInt(SubSeq(json, s0, s1 - 1)),
         timestamp |-> parseInt(SubSeq(json, t0, t1 - 1))]

\* JSON.parse(savedHistory) of a text that stringify wrote
parse(json) ==
    LET starts == {p \in 1..(Len(json) - Len(UrlKey) + 1) :
                      SubSeq(json, p, p + Len(UrlKey) - 1) = UrlKey}
    IN  [k \in 1..Cardinality(starts) |-> parseItemAt(json, KthOf(starts, k))]

\* the history the mount effect loads from localStorage into the initial []
loadedHistory(store) ==
    IF store.urlHistory # None /\ store.urlHistory[1] # ""
    THEN parse(store.urlHistory[1])
    ELSE <<>>

\* mutant of withoutUrl: the earlier record of the url is not removed
withoutUrl_KeepsAll(history, u) == history

\* urlHistory.filter(item => item.url !== url)
withoutUrl(history, u) == SelectSeq(history, LAMBDA item : item.url # u)

\* mutant of newHistoryOf: the older items are not cut to KeptItems
newHistoryOf_NoCut(history, u, score, t) ==
    <<[url |-> u, score |-> score, timestamp |-> t]>> \o withoutUrl(history, u)

\* newHistory of addToHistory(url, score), called at time t
newHistoryOf(history, u, score, t) ==
    LET others == withoutUrl(history, u)
    IN  <<[url |-> u, score |-> score, timestamp |-> t]>>
        \o SubSeq(others, 1, Min(KeptItems, Len(others)))

\* mutant of addToHistory: the list of the render is written, without the
\* new item
addToHistory_StoresCaptured(history, u, score, written) ==
    /\ urlHistory' = newHistoryOf(history, u, score, now)
    /\ now' = now + 1
    /\ storage' = IF written
                  THEN [storage EXCEPT !.urlHistory = Some(stringify(history))]
                  ELSE storage

\* addToHistory(u, score) in a render that holds history: the state is set,
\* then the item is written; localStorage.setItem throws when the quota is
\* exceeded (written = FALSE) and the exception leaves addToHistory
addToHistory(history, u, score, written) ==
    /\ urlHistory' = newHistoryOf(history, u, score, now)
    /\ now' = now + 1
    /\ storage' = IF written
                  THEN [storage EXCEPT !.urlHistory = Some(stringify(urlHistory'))]
                  ELSE storage

\* mutant of clearHistory: the item in localStorage is not removed
clearHistory_MemoryOnly ==
    /\ urlHistory' = <<>>
    /\ storage' = storage

clearHistory ==
    /\ urlHistory' = <<>>
    /\ storage' = [storage EXCEPT !.urlHistory = None]

(***************************************************************************)
(* The state after construction: the useState initial values, then the     *)
(* mount effect run against an empty localStorage.                         *)
(***************************************************************************)
EmptyStorage == [geminiApiKey |-> None, urlHistory |-> None]

InitApp ==
    /\ url = ""
    /\ result = None
    /\ isLoading = FALSE
    /\ aiLoading = FALSE
    /\ apiKeyInput = ""
    /\ geminiApiKey = ""
    /\ showApiKeyInput = TRUE
    /\ showApiKeyModal = FALSE
    /\ urlHistory = <<>>
    /\ currentView = "home"
    /\ urlError = None
    /\ storage = EmptyStorage
    /\ inflight = <<>>
    /\ timers = <<>>
    /\ now = 0
    /\ fault = FALSE
    /\ spent = 0

(***************************************************************************)
(* SpecURL: checkURL and isValidURL applied to every input of UrlInputs.   *)
(***************************************************************************)
Schemes == {"", "http://", "https://"}

Hosts ==
    {"example.com", "google.com", "accounts.google.com", "evilgoogle.com",
     "Login.PayPal.com", "bit.ly", "free.xyz", "192.168.1.1", "10.0.0.256",
     "a.b.c.d.e.com", "foo_bar.tk", "secure-login.t.co.a.b.github.com",
     "bit.ly.a_b.c.d.xyz", "my account.com", "", "1.2", "xyz", "google.com."}

Paths ==
    {"", "/", "/login", "/LOGIN/Verify?next=account", " ",
     "/signin-secure-update-confirm-paypal-banking-password-login-verify-account"}

UrlInputs == {s \o h \o p : s \in Schemes, h \in Hosts, p \in Paths}

InitURL ==
    /\ InitApp
    /\ input \in UrlInputs
    /\ output = None

CallCheckURL ==
    /\ output = None
    /\ output' = Some([valid |-> isValidURL(input), report |-> checkURL(input)])
    /\ UNCHANGED <<appVars, input, spent>>

SpecURL == InitURL /\ [][CallCheckURL]_vars

\* the report checkURL returned for an input that passes validation
Checked == output # None /\ output[1].valid
Report == output[1].report
ParsedInput == ParseURL(normalizeUrl(input))

\* C1: for every input that passes validation, the score checkURL returns is
\* an integer in 0..100, whatever rules fire.
C1_ScoreInRange == Checked => Report.score \in 0..100

\* C1 witness: six penalties at once, whose sum is below 0, were clamped to 0
C1_Witness ==
    /\ Checked
    /\ Report.score = 0
    /\ Len(Report.warnings) = 6

\* the deltas of the rules other than the suspicious-terms and allow-list rules
OtherDeltas(parsedUrl) ==
    LET domain == parsedUrl.hostname
        labels == split(domain, ".")
    IN  (IF parsedUrl.protocol # "https:" THEN -10 ELSE 0)
        + (IF ("." \o labels[Len(labels)]) \in Elems(suspiciousTLDs)
           THEN -15 ELSE 0)
        + (IF \E sh \in Elems(shortenerDomains) : includes(domain, sh)
           THEN -25 ELSE 0)
        + (IF Len(labels) - 2 > 3 THEN -10 ELSE 0)
        + (IF ipRegexTest(domain) THEN -30 ELSE 0)
        + (IF Len(specialCharsOf(domain)) > 0 THEN -15 ELSE 0)

\* C10: when the host ends with an allow-list entry, the report has no
\* suspicious-terms warning, has the known-legitimate-domain positive, and its
\* score is clamp(100 + other rule deltas + 30), whatever keywords matched.
C10_AllowListRefund ==
    (Checked /\ IsCommonDomain(ParsedInput.hostname)) =>
        /\ \A i \in 1..Len(Report.warnings) :
              ~includes(Report.warnings[i], "suspicious terms")
        /\ PosCommon \in Elems(Report.positives)
        /\ Report.score = Max(0, Min(100, 100 + OtherDeltas(ParsedInput) + 30))

\* C10 witness: an allow-listed host, matched keywords, a score below the cap
C10_Witness ==
    /\ Checked
    /\ IsCommonDomain(ParsedInput.hostname)
    /\ Len(foundSuspiciousWordsOf(normalizeUrl(input))) >= 3
    /\ Report.score < 100

\* the number of suspicious words in the lower-cased normalized input
FoundCount == Len(foundSuspiciousWordsOf(normalizeUrl(input)))

\* the deltas of all rules that apply to the input, as a set: no order
DeltasOfInput ==
    LET domain == ParsedInput.hostname
        labels == split(domain, ".")
        known == IsCommonDomain(domain)
    IN  {r \in {[rule |-> "https", delta |-> -10,
                 on |-> ParsedInput.protocol # "https:"],
                [rule |-> "tld", delta |-> -15,
                 on |-> ("." \o labels[Len(labels)]) \in Elems(suspiciousTLDs)],
                [rule |-> "shortener", delta |-> -25,
                 on |-> \E sh \in Elems(shortenerDomains) : includes(domain, sh)],
                [rule |-> "subdomains", delta |-> -10, on |-> Len(labels) - 2 > 3],
                [rule |-> "ip", delta |-> -30, on |-> ipRegexTest(domain)],
                [rule |-> "special", delta |-> -15,
                 on |-> Len(specialCharsOf(domain)) > 0],
                [rule |-> "terms", delta |-> -5 * FoundCount, on |-> ~known],
                [rule |-> "common", delta |-> 30, on |-> known]} : r.on}

RECURSIVE SumOfDeltas(_)
SumOfDeltas(rules) ==
    IF rules = {} THEN 0
    ELSE LET r == CHOOSE x \in rules : TRUE
         IN  r.delta + SumOfDeltas(rules \ {r})

\* C11: for every valid URL the score is the clamp to 0..100 of 100 plus the
\* deltas of the rules that apply (-10 not https, -15 suspicious TLD, -25
\* shortener, -10 more than 3 subdomains, -30 IPv4 host, -15 special
\* character, -5 per matched keyword unless allow-listed, +30 allow-listed),
\* summed in any order.
C11_RuleFormula ==
    Checked => Report.score = Max(0, Min(100, 100 + SumOfDeltas(DeltasOfInput)))

\* C11 witness: five rules and three keywords applied, the score is not capped
C11_Witness ==
    /\ Checked
    /\ Cardinality(DeltasOfInput) >= 5
    /\ FoundCount >= 3
    /\ Report.score \in 1..99
    /\ Report.score = 100 + SumOfDeltas(DeltasOfInput)

\* a positive pushed by a rule: the https rule or the allow-list rule
RulePositive ==
    ParsedInput.protocol = "https:" \/ IsCommonDomain(ParsedInput.hostname)

\* C17: the default positive is in the report if and only if no rule pushed
\* a positive and the clamped score is above 50; with a score of 50 or less
\* and no positive of a rule, the positives are empty.
C17_DefaultPositive ==
    Checked =>
        /\ PosDefault \in Elems(Report.positives)
           <=> (~RulePositive /\ Report.score > 50)
        /\ (~RulePositive /\ Report.score <= 50) => Report.positives = <<>>

\* C17 witness: no positive of a rule and a score of exactly 50
C17_Witness ==
    /\ Checked
    /\ ~RulePositive
    /\ Report.score = 50
    /\ Report.positives = <<>>

\* the default positive was pushed
DefaultPositivePushed ==
    Checked /\ ~RulePositive /\ Report.positives = <<PosDefault>>

\* four decimal numbers of 0..255 joined by dots
IsDottedQuad(h) ==
    LET parts == split(h, ".")
    IN  /\ Len(parts) = 4
        /\ \A i \in 1..4 : /\ IsDigits(parts[i])
                           /\ Len(parts[i]) <= 3
                           /\ DigitsValue(parts[i], 10) <= 255

\* C18: for a URL of scheme http whose host is a dotted-quad IPv4 address,
\* the report has the IP-address warning and the non-HTTPS warning and its
\* score is at most 60.
C18_HttpIpAtMost60 ==
    (Checked /\ ParsedInput.protocol = "http:"
             /\ IsDottedQuad(ParsedInput.hostname)) =>
        /\ WarnIp \in Elems(Report.warnings)
        /\ WarnHttps \in Elems(Report.warnings)
        /\ Report.score <= 60

\* C18 witness: http://192.168.1.1 alone, whose score is exactly 60
C18_Witness ==
    /\ Checked
    /\ input = "http://192.168.1.1"
    /\ Report.score = 60
    /\ Report.warnings = <<WarnHttps, WarnIp>>

(***************************************************************************)
(* SpecAI: getAIAnalysis applied to every answer of AiTexts.               *)
(***************************************************************************)
AiWords ==
    {"legitimate", "Legitimate", "malicious", "phishing", "scam", "caution",
     "suspicious", "site"}

AiTokens ==
    {"", "SAFETY_SCORE: 40", "safety_score:150", "Safety_Score:\n 7",
     "SAFETY_SCORE: high", "SAFETY_SCORE: n/a SAFETY_SCORE: 55",
     "SAFETY_SCORE: 100 SAFETY_SCORE: 30", "SAFETY_SCORE:0 "}

AiTexts ==
    {"This looks " \o w1 \o ", not " \o w2 \o ".\n" \o t :
        w1 \in AiWords, w2 \in AiWords, t \in AiTokens}

InitAI ==
    /\ InitApp
    /\ input \in AiTexts
    /\ output = None

CallAnalysis ==
    /\ output = None
    /\ output' = Some(analysisOf(input))
    /\ UNCHANGED <<appVars, input, spent>>

SpecAI == InitAI /\ [][CallAnalysis]_vars

AiScore == output[1].safety[1].score

\* C8: when the answer carries the SAFETY_SCORE token, the score of the AI
\* assessment is the first matched integer clamped to 0..100, so the score of
\* every AI assessment is in 0..100.
C8_AiScoreClamped ==
    output # None =>
        /\ AiScore \in 0..100
        /\ scoreMatchOf(input) # None =>
              AiScore = Max(0, Min(100, parseInt(scoreMatchOf(input)[1].group1)))

HasAny(text, words) == \E w \in words : includes(toLowerCase(text), w)

\* C9: when the answer carries no token, the score is 20 if the text has
\* malicious, phishing or scam; else 50 if it has caution or suspicious; else
\* 85 if it has legitimate and neither malicious nor suspicious; else 65.
C9_FallbackPrecedence ==
    (output # None /\ scoreMatchOf(input) = None) =>
        AiScore = IF HasAny(input, {"malicious", "phishing", "scam"}) THEN 20
                  ELSE IF HasAny(input, {"caution", "suspicious"}) THEN 50
                  ELSE IF /\ HasAny(input, {"legitimate"})
                          /\ ~HasAny(input, {"malicious", "suspicious"})
                  THEN 85
                  ELSE 65

(***************************************************************************)
(* SpecBlend: the blend of handleCheck applied to the report of checkURL   *)
(* for a URL of BlendUrls and the analysis of an answer that carries the   *)
(* score a, for every a up to MaxAiScore.                                  *)
(***************************************************************************)
MaxAiScore == 150

BlendUrls ==
    {"google.com", "http://google.com", "http://t.co.a_b.github.com",
     "http://t.co.a_b.c.d.github.com", "secure-login.t.co.a.b.github.com",
     "http://secure-login.t.co.a.b.github.com", "example.com",
     "http://bit.ly", "http://bit.ly.a_b.c.d.xyz/login"}

AnswerWith(a) == "The site looks fine.\nSAFETY_SCORE: " \o ToString(a)

InitBlend ==
    /\ InitApp
    /\ input \in {[url |-> u, text |-> AnswerWith(a)] :
                     u \in BlendUrls, a \in 0..MaxAiScore}
    /\ output = None

CallBlend ==
    /\ output = None
    /\ LET checkResult == checkURL(input.url)
           aiAnalysis == analysisOf(input.text)
       IN  output' = Some([checkResult |-> checkResult,
                           aiAnalysis |-> aiAnalysis,
                           score |-> blendedScore(checkResult,
                                                  aiAnalysis.safety[1].score)])
    /\ UNCHANGED <<appVars, input, spent>>

SpecBlend == InitBlend /\ [][CallBlend]_vars

\* round(x * b + y * a) of the exact sum, halves rounded up, for the weights
\* 0.3 and 0.7 of a known domain and 0.5 and 0.5 otherwise
ExactBlend(known, b, a) ==
    IF known THEN (3 * b + 7 * a + 5) \div 10 ELSE (b + a + 1) \div 2

\* C6: with an AI assessment of score a and a heuristic score b, the final
\* score is round(0.3*b + 0.7*a) when the report has the legitimate-domain
\* positive and round(0.5*b + 0.5*a) otherwise, halves rounded up.
C6_BlendFormula ==
    output # None =>
        output[1].score
        = ExactBlend(isKnownDomainOf(output[1].checkResult),
                     output[1].checkResult.score,
                     output[1].aiAnalysis.safety[1].score)

\* the formula of C6 for the AI scores of 0..100 only
BlendFormulaUpTo100 ==
    (output # None /\ output[1].aiAnalysis.safety[1].score <= 100) =>
        output[1].score
        = ExactBlend(isKnownDomainOf(output[1].checkResult),
                     output[1].checkResult.score,
                     output[1].aiAnalysis.safety[1].score)

\* base 80, AI score 40 and a known domain give 52
BlendExample ==
    (/\ output # None
     /\ isKnownDomainOf(output[1].checkResult)
     /\ output[1].checkResult.score = 80
     /\ output[1].aiAnalysis.safety[1].score = 40) => output[1].score = 52

(***************************************************************************)
(* SpecHistory: addToHistory and clearHistory called one at a time.  The   *)
(* default call adds the first URL of HistUrl that is not in the history,  *)
(* with the scores taken in turn; a run draws at most MaxSpent other       *)
(* inputs (a URL that is in the history, the other score, a full storage,  *)
(* a clear, a reload).  input holds the last call and the history before   *)
(* it.                                                                     *)
(***************************************************************************)
MaxAdds == 22
MaxSpent == 1

\* site1.com, Site1.com, site2.com, Site2.com, ...
HistUrl(k) ==
    (IF k % 2 = 1 THEN "site" ELSE "Site") \o ToString((k + 1) \div 2) \o ".com"

HistScores == <<90, 35>>

\* the score of the default call at time t: the scores in turn
DefaultScore(t) == HistScores[(t % Len(HistScores)) + 1]

UrlsOf(history) == {history[i].url : i \in 1..Len(history)}

FreshUrl(history) ==
    HistUrl(KthOf({k \in 1..(Len(history) + 1) :
                      HistUrl(k) \notin UrlsOf(history)}, 1))

HistCandidates(history) ==
    {FreshUrl(history)}
    \cup {history[i].url : i \in {1, (Len(history) + 1) \div 2, Len(history)}
                                  \cap (1..Len(history))}

Cost(isDefault) == IF isDefault THEN 0 ELSE 1

Call(op, u, score) == [op |-> op, url |-> u, score |-> score, before |-> urlHistory]

InitHistory ==
    /\ InitApp
    /\ input = Call("", "", 0)
    /\ output = None

HistAdd ==
    LET fresh == FreshUrl(urlHistory)
    IN  \E u \in HistCandidates(urlHistory), s \in Elems(HistScores),
           written \in BOOLEAN :
            LET cost == Cost(u = fresh) + Cost(s = DefaultScore(now))
                        + Cost(written)
            IN  /\ now < MaxAdds
                /\ spent + cost <= MaxSpent
                /\ spent' = spent + cost
                /\ addToHistory(urlHistory, u, s, written)
                /\ fault' = ~written
                /\ input' = Call("addToHistory", u, s)
                /\ UNCHANGED <<url, result, isLoading, aiLoading, apiKeyInput,
                               geminiApiKey, showApiKeyInput, showApiKeyModal,
                               currentView, urlError, inflight, timers, output>>

HistClear ==
    /\ spent < MaxSpent
    /\ spent' = spent + 1
    /\ clearHistory
    /\ input' = Call("clearHistory", "", 0)
    /\ UNCHANGED <<url, result, isLoading, aiLoading, apiKeyInput,
                   geminiApiKey, showApiKeyInput, showApiKeyModal, currentView,
                   urlError, inflight, timers, now, fault, output>>

\* the page is loaded again: urlHistory starts as [] and the mount effect
\* sets it from localStorage
HistReload ==
    /\ spent < MaxSpent
    /\ spent' = spent + 1
    /\ urlHistory' = loadedHistory(storage)
    /\ fault' = FALSE
    /\ input' = Call("reload", "", 0)
    /\ UNCHANGED <<url, result, isLoading, aiLoading, apiKeyInput,
                   geminiApiKey, showApiKeyInput, showApiKeyModal, currentView,
                   urlError, storage, inflight, timers, now, output>>

NextHistory == HistAdd \/ HistClear \/ HistReload

SpecHistory == InitHistory /\ [][NextHistory]_vars

\* C2: no two history records have the same url (exact comparison), and
\* after adding a url there is exactly one record for it, at the front,
\* carrying the score of the call.
C2_UniqueUrls ==
    /\ \A i, j \in 1..Len(urlHistory) :
          i # j => urlHistory[i].url # urlHistory[j].url
    /\ input.op = "addToHistory" =>
          /\ urlHistory[1].url = input.url
          /\ urlHistory[1].score = input.score
          /\ Cardinality({i \in 1..Len(urlHistory) :
                            urlHistory[i].url = input.url}) = 1

\* C2 witness: the url of the oldest record was added again, with another score
C2_Witness ==
    /\ input.op = "addToHistory"
    /\ Len(input.before) >= 3
    /\ input.before[Len(input.before)].url = input.url
    /\ input.before[Len(input.before)].score # input.score
    /\ Len(urlHistory) = Len(input.before)

\* C3: the history never holds more than 20 records, and adding a url that
\* is not in a history of 20 records removes the record at the tail and keeps
\* the other 19, in their order, behind the new record.
C3_CappedAtTwenty ==
    /\ Len(urlHistory) <= KeptItems + 1
    /\ (/\ input.op = "addToHistory"
        /\ Len(input.before) = KeptItems + 1
        /\ input.url \notin UrlsOf(input.before)) =>
          /\ Len(urlHistory) = KeptItems + 1
          /\ urlHistory[1].url = input.url
          /\ SubSeq(urlHistory, 2, KeptItems + 1)
             = SubSeq(input.before, 1, KeptItems)

\* C3 witness: a url not in the history was added to a history of 20 records
C3_Witness ==
    /\ input.op = "addToHistory"
    /\ Len(input.before) = KeptItems + 1
    /\ input.url \notin UrlsOf(input.before)

\* C4: right after clearHistory the history in memory is empty and the item
\* in localStorage is absent, so a reload reads an empty history too.
C4_ClearEmptiesBoth ==
    input.op = "clearHistory" =>
        /\ urlHistory = <<>>
        /\ storage.urlHistory = None
        /\ loadedHistory(storage) = <<>>

\* C4 witness: a history of several records, in memory and stored, was cleared
C4_Witness ==
    /\ input.op = "clearHistory"
    /\ Len(input.before) >= 3
    /\ urlHistory = <<>>

(***************************************************************************)
(* Spec: the App component driven by its user, the AI service and the      *)
(* timers.  A check that waits for the AI service is a record of inflight  *)
(* holding what its closure captured when handleCheck was called: the URL, *)
(* the report of checkURL and the urlHistory of that render.  output holds *)
(* the check that finished in the last step, if one did.  A run starts at  *)
(* most MaxChecks checks and takes at most MaxSpent of these steps: a page *)
(* reload, a storage write that fails, opening the key dialog, starting a  *)
(* check while another waits, starting a timer while another is pending.   *)
(***************************************************************************)
MaxChecks == 2

AppUrls == {"google.com", "http://free.xyz/login", "a b.com"}
AppKeys == {"key"}
AppAnswers == {"Safe.\nSAFETY_SCORE: 150"}

\* the arguments of the direct calls of handleCheck in SpecCheck
CheckInputs ==
    {"", " ", " \t\n", "a b.com", "http://", "example.com", "google.com"}

AllUrls == AppUrls \cup CheckInputs

\* what the pure functions return for the inputs of this specification;
\* they are applied once, in Init, and input holds their values
ValidOf == [u \in AllUrls |-> isValidURL(u)]
ReportOf == [u \in AllUrls |-> checkURL(u)]
AnalysisOf == [text \in AppAnswers |-> analysisOf(text)]

EnterUrlText == "Please enter a URL"
ValidUrlText ==
    "Please enter a valid URL (e.g., example.com or https://example.com)"


\* mutant of finalResultOf: an absent assessment is blended as the score 0
finalResultOf_BlendsAbsent(checkResult, aiResult) ==
    [score |-> blendedScore(checkResult,
                            IF aiResult # None /\ aiResult[1].safety # None
                            THEN aiResult[1].safety[1].score ELSE 0),
     warnings |-> checkResult.warnings,
     positives |-> checkResult.positives,
     aiAnalysis |-> None,
     aiSafety |-> None]

\* mutant of finalResultOf: the blended score is not brought into 0..100
finalResultOf_NoClamp(checkResult, aiResult) ==
    [score |-> IF aiResult # None /\ aiResult[1].safety # None
               THEN IF isKnownDomainOf(checkResult)
                    THEN Weighted(Double03, checkResult.score, Double07,
                                  aiResult[1].safety[1].score)
                    ELSE Weighted(Double05, checkResult.score, Double05,
                                  aiResult[1].safety[1].score)
               ELSE checkResult.score,
     warnings |-> checkResult.warnings,
     positives |-> checkResult.positives,
     aiAnalysis |-> None,
     aiSafety |-> IF aiResult # None THEN aiResult[1].safety ELSE None]

\* finalResult of handleCheck; aiResult is None when getAIAnalysis was not
\* called, else Some of what it returned
finalResultOf(checkResult, aiResult) ==
    [score |-> IF aiResult # None /\ aiResult[1].safety # None
               THEN blendedScore(checkResult, aiResult[1].safety[1].score)
               ELSE checkResult.score,
     warnings |-> checkResult.warnings,
     positives |-> checkResult.positives,
     aiAnalysis |-> IF aiResult # None /\ aiResult[1].text # ""
                    THEN Some(aiResult[1].text) ELSE None,
     aiSafety |-> IF aiResult # None THEN aiResult[1].safety ELSE None]

AiResults ==
    {None, Some(analysisFailed)} \cup {Some(AnalysisOf[t]) : t \in AppAnswers}

FinalResultOf ==
    [u \in {v \in AllUrls : ValidOf[v]}, aiResult \in AiResults |->
        finalResultOf(ReportOf[u], aiResult)]

Init ==
    /\ InitApp
    /\ input = [ValidOf |-> [u \in AppUrls |-> ValidOf[u]],
                ReportOf |-> [u \in AppUrls |-> ReportOf[u]],
                AnalysisOf |-> AnalysisOf,
                FinalResultOf |->
                    [u \in {v \in AppUrls : ValidOf[v]},
                     aiResult \in AiResults |-> FinalResultOf[u, aiResult]]]
    /\ output = None

\* the first line of the prompt getAIAnalysis(u) sends
PromptOf(u) == "Analyze this URL for potential security risks: " \o u

\* the end of handleCheck, from finalResult on; when localStorage.setItem
\* throws in addToHistory (written = FALSE), setIsLoading(false) is not
\* reached.  captured is the urlHistory of the render in which the check
\* started, before that of the render in which it ends.
Finish(check, aiResult, written) ==
    LET finalResult == input.FinalResultOf[check.urlToCheck, aiResult]
    IN  /\ result' = Some(finalResult)
        /\ addToHistory(check.urlHistory, check.urlToCheck, finalResult.score,
                        written)
        /\ isLoading' = ~written
        /\ fault' = ~written
        /\ output' = Some([urlToCheck |-> check.urlToCheck,
                           checkResult |-> check.checkResult,
                           geminiApiKey |-> check.geminiApiKey,
                           requests |-> check.requests,
                           aiResult |-> aiResult,
                           finalResult |-> finalResult,
                           captured |-> check.urlHistory,
                           before |-> urlHistory])

\* mutant of handleCheck: blank input gets the message of an invalid URL
handleCheck_OneMessage(urlToCheck, view, written) ==
    IF trim(urlToCheck) = "" \/ ~input.ValidOf[urlToCheck]
    THEN /\ urlError' = Some(ValidUrlText)
         /\ currentView' = view
         /\ written
         /\ output' = None
         /\ UNCHANGED <<result, isLoading, aiLoading, urlHistory, storage,
                        inflight, now, fault, spent>>
    ELSE /\ now + Len(inflight) < MaxChecks
         /\ urlError' = None
         /\ currentView' = "result"
         /\ LET check == [urlToCheck |-> urlToCheck,
                          checkResult |-> input.ReportOf[urlToCheck],
                          urlHistory |-> urlHistory,
                          geminiApiKey |-> geminiApiKey,
                          prompt |-> IF geminiApiKey # ""
                                     THEN Some(PromptOf(urlToCheck)) ELSE None,
                          requests |-> IF geminiApiKey # "" THEN 1 ELSE 0]
            IN  IF geminiApiKey # ""
                THEN /\ written
                     /\ spent + Cost(inflight = <<>>) <= MaxSpent
                     /\ spent' = spent + Cost(inflight = <<>>)
                     /\ isLoading' = TRUE
                     /\ aiLoading' = TRUE
                     /\ inflight' = Append(inflight, check)
                     /\ output' = None
                     /\ UNCHANGED <<result, urlHistory, storage, now, fault>>
                ELSE /\ Finish(check, None, written)
                     /\ spent + Cost(written) <= MaxSpent
                     /\ spent' = spent + Cost(written)
                     /\ UNCHANGED <<aiLoading, inflight>>

\* handleCheck(urlToCheck) up to the await of getAIAnalysis, or to its end
\* when no key is set; view is the currentView its caller has set
handleCheck(urlToCheck, view, written) ==
    IF trim(urlToCheck) = "" \/ ~input.ValidOf[urlToCheck]
    THEN /\ urlError' = Some(IF trim(urlToCheck) = "" THEN EnterUrlText
                             ELSE ValidUrlText)
         /\ currentView' = view
         /\ written
         /\ output' = None
         /\ UNCHANGED <<result, isLoading, aiLoading, urlHistory, storage,
                        inflight, now, fault, spent>>
    ELSE /\ now + Len(inflight) < MaxChecks
         /\ urlError' = None
         /\ currentView' = "result"
         /\ LET check == [urlToCheck |-> urlToCheck,
                          checkResult |-> input.ReportOf[urlToCheck],
                          urlHistory |-> urlHistory,
                          geminiApiKey |-> geminiApiKey,
                          prompt |-> IF geminiApiKey # ""
                                     THEN Some(PromptOf(urlToCheck)) ELSE None,
                          requests |-> IF geminiApiKey # "" THEN 1 ELSE 0]
            IN  IF geminiApiKey # ""
                THEN /\ written
                     /\ spent + Cost(inflight = <<>>) <= MaxSpent
                     /\ spent' = spent + Cost(inflight = <<>>)
                     /\ isLoading' = TRUE
                     /\ aiLoading' = TRUE
                     /\ inflight' = Append(inflight, check)
                     /\ output' = None
                     /\ UNCHANGED <<result, urlHistory, storage, now, fault>>
                ELSE /\ Finish(check, None, written)
                     /\ spent + Cost(written) <= MaxSpent
                     /\ spent' = spent + Cost(written)
                     /\ UNCHANGED <<aiLoading, inflight>>

UrlInputShown == currentView = "home" /\ geminiApiKey # ""

TypeUrl ==
    \E u \in AppUrls :
        /\ UrlInputShown
        /\ url' = u
        /\ output' = None
        /\ spent + Cost(input.ValidOf[u]) <= MaxSpent
        /\ spent' = spent + Cost(input.ValidOf[u])
        /\ UNCHANGED <<result, isLoading, aiLoading, apiKeyInput, geminiApiKey,
                       showApiKeyInput, showApiKeyModal, urlHistory,
                       currentView, urlError, storage, inflight, timers, now,
                       fault, input>>

PressEnter ==
    \E written \in BOOLEAN :
        /\ UrlInputShown
        /\ trim(url) # ""
        /\ handleCheck(url, currentView, written)
        /\ UNCHANGED <<url, apiKeyInput, geminiApiKey, showApiKeyInput,
                       showApiKeyModal, timers, input>>

ClickCheck ==
    \E written \in BOOLEAN :
        /\ UrlInputShown
        /\ ~isLoading
        /\ trim(url) # ""
        /\ handleCheck(url, currentView, written)
        /\ UNCHANGED <<url, apiKeyInput, geminiApiKey, showApiKeyInput,
                       showApiKeyModal, timers, input>>

checkFromHistory ==
    \E i \in 1..Len(urlHistory), written \in BOOLEAN :
        /\ currentView = "history"
        /\ url' = urlHistory[i].url
        /\ handleCheck(urlHistory[i].url, "home", written)
        /\ UNCHANGED <<apiKeyInput, geminiApiKey, showApiKeyInput,
                       showApiKeyModal, timers, input>>

\* the AI service answers the request of inflight[i]: getAIAnalysis returns
\* and handleCheck runs to its end
AiAnswers ==
    \E i \in 1..Len(inflight), text \in AppAnswers, written \in BOOLEAN :
        /\ spent + Cost(written) <= MaxSpent
        /\ spent' = spent + Cost(written)
        /\ aiLoading' = FALSE
        /\ Finish(inflight[i], Some(input.AnalysisOf[text]), written)
        /\ inflight' = SubSeq(inflight, 1, i - 1)
                       \o SubSeq(inflight, i + 1, Len(inflight))
        /\ UNCHANGED <<url, apiKeyInput, geminiApiKey, showApiKeyInput,
                       showApiKeyModal, currentView, urlError, timers, input>>

\* mutant of AiFails: the request is sent again and the check keeps waiting
AiFails_Retries ==
    \E i \in 1..Len(inflight) :
        /\ inflight' = [inflight EXCEPT ![i].requests = @ + 1]
        /\ output' = None
        /\ UNCHANGED <<url, result, isLoading, aiLoading, apiKeyInput,
                       geminiApiKey, showApiKeyInput, showApiKeyModal,
                       urlHistory, currentView, urlError, storage, timers, now,
                       fault, input, spent>>

\* the request of inflight[i] fails: getAIAnalysis returns from its catch
AiFails ==
    \E i \in 1..Len(inflight), written \in BOOLEAN :
        /\ spent + Cost(written) <= MaxSpent
        /\ spent' = spent + Cost(written)
        /\ aiLoading' = FALSE
        /\ Finish(inflight[i], Some(analysisFailed), written)
        /\ inflight' = SubSeq(inflight, 1, i - 1)
                       \o SubSeq(inflight, i + 1, Len(inflight))
        /\ UNCHANGED <<url, apiKeyInput, geminiApiKey, showApiKeyInput,
                       showApiKeyModal, currentView, urlError, timers, input>>

ClickClearHistory ==
    /\ currentView = "history"
    /\ Len(urlHistory) > 0
    /\ clearHistory
    /\ output' = None
    /\ UNCHANGED <<url, result, isLoading, aiLoading, apiKeyInput, geminiApiKey,
                   showApiKeyInput, showApiKeyModal, currentView, urlError,
                   inflight, timers, now, fault, input, spent>>

\* resetToHome and navigateToHistory start a timer of 300 ms
StartTimer(view) ==
    /\ spent + Cost(timers = <<>>) <= MaxSpent
    /\ spent' = spent + Cost(timers = <<>>)
    /\ timers' = Append(timers, view)
    /\ output' = None
    /\ UNCHANGED <<url, result, isLoading, aiLoading, apiKeyInput, geminiApiKey,
                   showApiKeyInput, showApiKeyModal, urlHistory, currentView,
                   urlError, storage, inflight, now, fault, input>>

resetToHome == StartTimer("home")

navigateToHistory == StartTimer("history")

\* the oldest timer fires
TimerFires ==
    /\ timers # <<>>
    /\ timers' = Tail(timers)
    /\ currentView' = Head(timers)
    /\ IF Head(timers) = "home"
       THEN url' = "" /\ result' = None /\ urlError' = None
       ELSE UNCHANGED <<url, result, urlError>>
    /\ output' = None
    /\ UNCHANGED <<isLoading, aiLoading, apiKeyInput, geminiApiKey,
                   showApiKeyInput, showApiKeyModal, urlHistory, storage,
                   inflight, now, fault, input, spent>>

SetShowApiKeyModal ==
    \E shown \in BOOLEAN :
        /\ shown \/ showApiKeyModal
        /\ spent + Cost(~shown) <= MaxSpent
        /\ spent' = spent + Cost(~shown)
        /\ showApiKeyModal' = shown
        /\ output' = None
        /\ UNCHANGED <<url, result, isLoading, aiLoading, apiKeyInput,
                       geminiApiKey, showApiKeyInput, urlHistory, currentView,
                       urlError, storage, inflight, timers, now, fault, input>>

SetupShown == geminiApiKey = "" /\ currentView = "home"

TypeApiKey ==
    \E k \in AppKeys :
        /\ showApiKeyModal \/ SetupShown
        /\ apiKeyInput' = k
        /\ output' = None
        /\ UNCHANGED <<url, result, isLoading, aiLoading, geminiApiKey,
                       showApiKeyInput, showApiKeyModal, urlHistory,
                       currentView, urlError, storage, inflight, timers, now,
                       fault, input, spent>>

saveApiKey ==
    /\ showApiKeyModal \/ (SetupShown /\ trim(apiKeyInput) # "")
    /\ IF trim(apiKeyInput) # ""
       THEN /\ storage' = [storage EXCEPT !.geminiApiKey = Some(apiKeyInput)]
            /\ geminiApiKey' = apiKeyInput
            /\ showApiKeyInput' = FALSE
            /\ showApiKeyModal' = FALSE
       ELSE UNCHANGED <<storage, geminiApiKey, showApiKeyInput,
                        showApiKeyModal>>
    /\ output' = None
    /\ UNCHANGED <<url, result, isLoading, aiLoading, apiKeyInput, urlHistory,
                   currentView, urlError, inflight, timers, now, fault, input,
                   spent>>

removeApiKey ==
    /\ showApiKeyModal
    /\ geminiApiKey # ""
    /\ storage' = [storage EXCEPT !.geminiApiKey = None]
    /\ geminiApiKey' = ""
    /\ apiKeyInput' = ""
    /\ showApiKeyInput' = TRUE
    /\ showApiKeyModal' = FALSE
    /\ output' = None
    /\ UNCHANGED <<url, result, isLoading, aiLoading, urlHistory, currentView,
                   urlError, inflight, timers, now, fault, input, spent>>

\* the page is loaded again: every state starts from its initial value and
\* the mount effect reads localStorage; pending requests and timers are gone
Reload ==
    /\ spent < MaxSpent
    /\ spent' = spent + 1
    /\ url' = ""
    /\ result' = None
    /\ isLoading' = FALSE
    /\ aiLoading' = FALSE
    /\ apiKeyInput' = ""
    /\ geminiApiKey' = (IF storage.geminiApiKey # None
                        THEN storage.geminiApiKey[1] ELSE "")
    /\ showApiKeyInput' = (geminiApiKey' = "")
    /\ showApiKeyModal' = FALSE
    /\ urlHistory' = loadedHistory(storage)
    /\ currentView' = "home"
    /\ urlError' = None
    /\ inflight' = <<>>
    /\ timers' = <<>>
    /\ fault' = FALSE
    /\ output' = None
    /\ UNCHANGED <<storage, now, input>>

Next ==
    \/ TypeUrl
    \/ PressEnter
    \/ ClickCheck
    \/ checkFromHistory
    \/ AiAnswers
    \/ AiFails
    \/ ClickClearHistory
    \/ resetToHome
    \/ navigateToHistory
    \/ TimerFires
    \/ SetShowApiKeyModal
    \/ TypeApiKey
    \/ saveApiKey
    \/ removeApiKey
    \/ Reload

Spec == Init /\ [][Next]_vars

\* the check that finished in the last step had no AI assessment
NoAssessment == output[1].aiResult = None \/ output[1].aiResult[1].safety = None

\* C5: when a check has no AI assessment (no key stored, or the AI call
\* failed), the score of the result shown and the score of its history
\* record both equal the score checkURL returned, known domain or not.
C5_NoAssessmentKeepsScore ==
    (output # None /\ NoAssessment) =>
        /\ result # None
        /\ result[1].score = output[1].checkResult.score
        /\ result[1].aiSafety = None
        /\ urlHistory[1].url = output[1].urlToCheck
        /\ urlHistory[1].score = output[1].checkResult.score

\* C5 witness: a check of a known domain finished after its AI call failed
C5_Witness ==
    /\ output # None
    /\ output[1].aiResult = Some(analysisFailed)
    /\ isKnownDomainOf(output[1].checkResult)
    /\ urlHistory[1].score = output[1].checkResult.score

\* a check finished with no key stored, for a domain that is not known
NoKeyCheckFinished ==
    /\ output # None
    /\ output[1].aiResult = None
    /\ ~isKnownDomainOf(output[1].checkResult)
    /\ geminiApiKey = ""

\* C7: every score of a result shown and every score of a history record is
\* an integer of 0..100, whatever number the AI answer carries.
C7_ScoresInRange ==
    /\ result # None => result[1].score \in 0..100
    /\ \A i \in 1..Len(urlHistory) : urlHistory[i].score \in 0..100

\* C7 witness: a check finished whose AI assessment has a score above 100
C7_Witness ==
    /\ output # None
    /\ output[1].aiResult # None
    /\ output[1].aiResult[1].safety # None
    /\ output[1].aiResult[1].safety[1].score > 100
    /\ result[1].score = 100
    /\ urlHistory[1].score = 100

\* the check that finished in the last step had a failed AI call
AiCallFailed == output # None /\ output[1].aiResult = Some(analysisFailed)

\* the result, the history and the flags after a check whose AI call failed
DegradedToHeuristic ==
    /\ result # None
    /\ result[1].score = output[1].checkResult.score
    /\ result[1].aiSafety = None
    /\ result[1].aiAnalysis = Some(UnableText)
    /\ urlHistory[1].url = output[1].urlToCheck
    /\ urlHistory[1].score = output[1].checkResult.score
    /\ ~isLoading
    /\ ~aiLoading
    /\ ~fault

\* C12: when the AI call fails the check still completes: the result has the
\* heuristic score, no AI assessment and the fixed text, a history record is
\* added, the loading flags are cleared and no error leaves handleCheck.
C12_AiFailureDegrades == AiCallFailed => DegradedToHeuristic

\* the same, for the checks whose write to localStorage did not throw
AiFailureDegradesWhenWritten == (AiCallFailed /\ ~fault) => DegradedToHeuristic

\* C13: when the write of the history to localStorage fails, the result is
\* still delivered: the result is set and the loading flag is cleared, so
\* the result view is shown.
C13_StorageFailureDelivers ==
    (output # None /\ fault) =>
        /\ result = Some(output[1].finalResult)
        /\ ~isLoading

\* a check ended in a write that threw: the result is set, isLoading is not
\* cleared
StorageFailureReached == output # None /\ fault /\ result # None /\ isLoading

\* C14: the URL in the prompt of every AI request is the normalized URL that
\* checkURL evaluates (https:// put in front of example.com).
C14_PromptHasNormalizedUrl ==
    \A i \in 1..Len(inflight) :
        inflight[i].prompt = Some(PromptOf(normalizeUrl(inflight[i].urlToCheck)))

\* the prompts of the URLs that carry their scheme have the normalized URL
PromptOfQualifiedUrl ==
    \A i \in 1..Len(inflight) :
        inflight[i].urlToCheck = normalizeUrl(inflight[i].urlToCheck) =>
            inflight[i].prompt = Some(PromptOf(normalizeUrl(inflight[i].urlToCheck)))

\* C16: a check sends no AI request when no key is stored and one request
\* otherwise; a failed request is not sent again.
C16_AtMostOneRequest ==
    /\ \A i \in 1..Len(inflight) :
          /\ inflight[i].requests = 1
          /\ inflight[i].geminiApiKey # ""
    /\ output # None =>
          /\ output[1].requests <= 1
          /\ output[1].geminiApiKey = "" => output[1].requests = 0
          /\ AiCallFailed => output[1].requests = 1

\* C16 witness: a check ended after its only request failed
C16_Witness ==
    /\ AiCallFailed
    /\ output[1].requests = 1
    /\ inflight = <<>>

\* a check ended with no key stored and no request
NoKeyNoRequest ==
    output # None /\ output[1].geminiApiKey = "" /\ output[1].requests = 0

\* C19: at most one check is in flight at any time.
C19_OneCheckInFlight == Len(inflight) <= 1

\* C20: a check that completes leaves the records of the other urls in the
\* history (below the cap), so after two overlapping checks of different urls
\* both have a record.
C20_EachCheckRecorded ==
    output # None =>
        /\ output[1].urlToCheck \in UrlsOf(urlHistory)
        /\ Len(output[1].before) <= KeptItems =>
              UrlsOf(output[1].before) \subseteq UrlsOf(urlHistory)

\* the same, for the checks that end in the render whose urlHistory they
\* captured when they started
RecordedWhenNotStale ==
    (output # None /\ output[1].captured = output[1].before
                   /\ Len(output[1].before) <= KeptItems) =>
        /\ output[1].urlToCheck \in UrlsOf(urlHistory)
        /\ UrlsOf(output[1].before) \subseteq UrlsOf(urlHistory)

(***************************************************************************)
(* SpecCheck: handleCheck called with every argument of CheckInputs, with  *)
(* and without a stored key, while the AI service answers or fails.        *)
(***************************************************************************)
\* the state after the mount effect has run against a localStorage that holds
\* no key, or the key "key"
InitCheck ==
    /\ url = ""
    /\ result = None
    /\ isLoading = FALSE
    /\ aiLoading = FALSE
    /\ apiKeyInput = ""
    /\ \E k \in {"", "key"} :
          /\ geminiApiKey = k
          /\ showApiKeyInput = (k = "")
          /\ storage = [EmptyStorage EXCEPT
                          !.geminiApiKey = IF k = "" THEN None ELSE Some(k)]
    /\ showApiKeyModal = FALSE
    /\ urlHistory = <<>>
    /\ currentView = "home"
    /\ urlError = None
    /\ inflight = <<>>
    /\ timers = <<>>
    /\ now = 0
    /\ fault = FALSE
    /\ spent = 0
    /\ input = [ValidOf |-> ValidOf, ReportOf |-> ReportOf,
                AnalysisOf |-> AnalysisOf, FinalResultOf |-> FinalResultOf]
    /\ output = None

\* handleCheck(u) called in the current render
CallOf(u) ==
    \E written \in BOOLEAN :
        /\ handleCheck(u, currentView, written)
        /\ UNCHANGED <<url, apiKeyInput, geminiApiKey, showApiKeyInput,
                       showApiKeyModal, timers, input>>

CallHandleCheck == \E u \in CheckInputs : CallOf(u)

NextCheck == CallHandleCheck \/ AiAnswers \/ AiFails

SpecCheck == InitCheck /\ [][NextCheck]_vars

Blank(u) == trim(u) = ""

Unparsable(u) == ~Blank(u) /\ ~ParseURL(normalizeUrl(u)).ok

\* C15: handleCheck of an empty or white-space input sets the 'enter a URL'
\* error, handleCheck of an input that cannot be parsed after the scheme is
\* put in front sets the other, 'valid URL' error; in both cases no AI
\* request is made, no history record is added and the result and the
\* loading flag are left as they were.
C15_ValidationErrors ==
    [][\A u \in CheckInputs :
          ((Blank(u) \/ Unparsable(u)) /\ CallOf(u)) =>
              /\ urlError' = Some(IF Blank(u) THEN EnterUrlText
                                  ELSE ValidUrlText)
              /\ EnterUrlText # ValidUrlText
              /\ UNCHANGED <<result, isLoading, aiLoading, urlHistory,
                             storage, inflight>>]_vars

\* C15 witness: the 'enter a URL' error was set while a check was waiting
C15_Witness ==
    /\ urlError = Some(EnterUrlText)
    /\ isLoading
    /\ Len(inflight) = 1
    /\ urlHistory = <<>>

\* the 'valid URL' error was set after a check had finished
InvalidUrlRejected ==
    /\ urlError = Some(ValidUrlText)
    /\ result # None
    /\ Len(urlHistory) = 1

(***************************************************************************)
(* The allow list read as a list of domains: the entries themselves and    *)
(* their subdomains.                                                       *)
(***************************************************************************)
\* host is an entry of commonDomains or a dot-separated subdomain of one
IsListedHost(host) ==
    \E d \in Elems(commonDomains) : host = d \/ endsWith(host, "." \o d)

\* C23: the known-legitimate-domain positive and its +30 bonus are given only
\* to a host that is an allow-list entry or a dot-separated subdomain of one;
\* a host that merely ends with the characters of an entry (evilgoogle.com)
\* gets neither.
C23_KnownOnlyWhenListed ==
    (Checked /\ ~IsListedHost(ParsedInput.hostname)) =>
        /\ PosCommon \notin Elems(Report.positives)
        /\ ~isKnownDomainOf(Report)
        /\ Report.score <= Max(0, Min(100, 100 + OtherDeltas(ParsedInput)))

\* evilgoogle.com was checked and its report has the positive
SuffixHostTreatedAsKnown ==
    /\ Checked
    /\ ParsedInput.hostname = "evilgoogle.com"
    /\ PosCommon \in Elems(Report.positives)

\* the hosts that end with no allow-list entry at all get neither
UnlistedSuffixNotKnown ==
    (Checked /\ ~IsCommonDomain(ParsedInput.hostname)) =>
        /\ PosCommon \notin Elems(Report.positives)
        /\ ~isKnownDomainOf(Report)

(***************************************************************************)
(* clearHistory while a check is waiting for its AI call.                  *)
(***************************************************************************)
\* the check that finished in the last step started with records in the
\* history and ended after the history had been cleared
ClearedDuringCheck ==
    /\ output # None
    /\ output[1].captured # <<>>
    /\ output[1].before = <<>>

\* C21: a check that ends after clearHistory has emptied the history leaves
\* only its own record, in memory and (when its write succeeds) in
\* localStorage: the cleared records do not come back.
C21_ClearedStaysCleared ==
    (output # None /\ output[1].before = <<>>) =>
        /\ UrlsOf(urlHistory) = {output[1].urlToCheck}
        /\ ~fault => UrlsOf(loadedHistory(storage)) = {output[1].urlToCheck}

\* a check ended after a clear and the history holds a cleared record again
ClearedRecordBack ==
    /\ ClearedDuringCheck
    /\ Len(urlHistory) = 2
    /\ urlHistory[2] = output[1].captured[1]
    /\ loadedHistory(storage) = urlHistory

\* the same, for the checks that captured the empty history
OnlyOwnRecordWhenNotStale ==
    (output # None /\ output[1].before = <<>> /\ output[1].captured = <<>>) =>
        UrlsOf(urlHistory) = {output[1].urlToCheck}

(***************************************************************************)
(* The history in memory and its copy in localStorage.                     *)
(***************************************************************************)
\* C22: after every addToHistory whose write did not throw and after every
\* clearHistory, the history in memory equals the history that the item in
\* localStorage holds (no item counting as the empty list), also when the
\* check used the history of an earlier render.
C22_MemoryEqualsStorage ==
    [][((output' # None /\ ~fault') \/ ClickClearHistory) =>
          urlHistory' = loadedHistory(storage')]_vars

\* C22 witness: a check that had captured the history of an earlier render
\* ended with a successful write, and memory and localStorage hold the same
\* non-empty list
C22_Witness ==
    /\ output # None
    /\ ~fault
    /\ output[1].captured # output[1].before
    /\ urlHistory # <<>>
    /\ urlHistory = loadedHistory(storage)

\* the history was cleared after a write had failed: memory and localStorage
\* are both empty
ClearedAfterFault ==
    /\ fault
    /\ urlHistory = <<>>
    /\ storage.urlHistory = None
    /\ now > 0

====
